---- MODULE Spec2Model ----
(***************************************************************************)
(* Model of the Button component (src/src/components/Button.example.tsx,   *)
(* lines 179-452 are Button.tsx) and of the way a parent renders it.       *)
(*                                                                         *)
(* A JavaScript string is modelled as a sequence whose elements are either *)
(* a class token ("h-10") or the separator " ", so that joining an empty   *)
(* segment leaves two separators in a row exactly as Array.join does.      *)
(* The props object of one render is a function from the names of the      *)
(* attributes the caller supplied to their values: an omitted attribute    *)
(* is a name outside the domain.                                           *)
(***************************************************************************)
EXTENDS Integers, Sequences, FiniteSets, TLC

VARIABLES props, element

(* ------------------------------ bounds --------------------------------- *)

\* longest caller className, in tokens
MaxClassNameLen == 1

(* --------------------------- JavaScript helpers ------------------------ *)

SP == " "

Has(p, k) == k \in DOMAIN p

\* destructuring with a default value: `k = d`
Get(p, k, d) == IF Has(p, k) THEN p[k] ELSE d

\* p with attribute k supplied as v
Put(p, k, v) == [x \in DOMAIN p \cup {k} |-> IF x = k THEN v ELSE p[x]]

\* p with attribute k omitted
Omit(p, k) == [x \in DOMAIN p \ {k} |-> p[x]]

\* object spread {...a, ...b}: keys of b win
Spread(a, b) == [x \in DOMAIN a \cup DOMAIN b |-> IF x \in DOMAIN b THEN b[x] ELSE a[x]]

NoProps == [x \in {} |-> TRUE]

\* Array.prototype.join(' ') over a list of strings
RECURSIVE Join(_)
Join(segs) ==
    IF Len(segs) = 0 THEN << >>
    ELSE IF Len(segs) = 1 THEN segs[1]
    ELSE segs[1] \o <<SP>> \o Join(Tail(segs))

\* the class tokens of a class string, as the browser's class list reads it
Tokens(s) == {s[i] : i \in 1..Len(s)} \ {SP}

(* ------------------------------ Button.tsx ----------------------------- *)

ButtonVariant == {"primary", "secondary", "outline", "ghost", "link", "linkSecondary"}

ButtonSize == {"sm", "md"}

\* the names the component destructures; everything else is `...props`
Destructured == {"variant", "size", "destructive", "loading", "leftIcon", "rightIcon",
                 "children", "className", "disabled", "type", "aria-label"}

RestOf(p) == [x \in DOMAIN p \ Destructured |-> p[x]]

isLink(variant) == variant = "link" \/ variant = "linkSecondary"

isDisabled_ignores_loading(p, loading) == Has(p, "disabled") /\ p["disabled"]

\* const isDisabled = disabled || loading  (disabled may be undefined)
isDisabled(p, loading) == (Has(p, "disabled") /\ p["disabled"]) \/ loading

baseStyles ==
    <<"inline-flex", SP, "items-center", SP, "justify-center", SP, "font-medium", SP,
      "transition-colors", SP, "focus-visible:outline-none", SP, "focus-visible:ring-2", SP,
      "focus-visible:ring-offset-2", SP, "disabled:pointer-events-none", SP,
      "disabled:opacity-50">>

LinkSize == <<"h-6", SP, "text-sm">>

sizeStyles_md_not_collapsed(variant, size) ==
    [sm |-> IF size = "sm" /\ isLink(variant)
              THEN LinkSize
              ELSE <<"h-9", SP, "px-3", SP, "py-2", SP, "text-sm", SP, "gap-1">>,
     md |-> <<"h-10", SP, "px-3", SP, "py-2", SP, "text-sm", SP, "gap-1">>]

sizeStyles_heights_swapped(variant, size) ==
    [sm |-> IF size = "sm" /\ isLink(variant)
              THEN LinkSize
              ELSE <<"h-10", SP, "px-3", SP, "py-2", SP, "text-sm", SP, "gap-1">>,
     md |-> IF isLink(variant)
              THEN LinkSize
              ELSE <<"h-9", SP, "px-3", SP, "py-2", SP, "text-sm", SP, "gap-1">>]

\* the Record<ButtonSize, string> built on every render
sizeStyles(variant, size) ==
    [sm |-> IF size = "sm" /\ isLink(variant)
              THEN LinkSize
              ELSE <<"h-9", SP, "px-3", SP, "py-2", SP, "text-sm", SP, "gap-1">>,
     md |-> IF isLink(variant)
              THEN LinkSize
              ELSE <<"h-10", SP, "px-3", SP, "py-2", SP, "text-sm", SP, "gap-1">>]

variantStyles_ghost_tone_ignored ==
    [primary |->
       [normal |-> <<"bg-slate-900", SP, "text-slate-50", SP, "hover:bg-slate-800", SP,
                     "focus-visible:ring-slate-900">>,
        destructive |-> <<"bg-red-600", SP, "text-white", SP, "hover:bg-red-700", SP,
                          "focus-visible:ring-red-600">>],
     secondary |->
       [normal |-> <<"bg-slate-100", SP, "text-slate-900", SP, "hover:bg-slate-200", SP,
                     "focus-visible:ring-slate-900">>,
        destructive |-> <<"bg-red-100", SP, "text-red-900", SP, "hover:bg-red-200", SP,
                          "focus-visible:ring-red-600">>],
     outline |->
       [normal |-> <<"border", SP, "border-slate-200", SP, "bg-white", SP, "text-slate-900", SP,
                     "hover:bg-slate-100", SP, "focus-visible:ring-slate-900">>,
        destructive |-> <<"border", SP, "border-red-200", SP, "bg-white", SP, "text-red-900", SP,
                          "hover:bg-red-50", SP, "focus-visible:ring-red-600">>],
     ghost |->
       [normal |-> <<"text-slate-900", SP, "hover:bg-slate-100", SP,
                     "focus-visible:ring-slate-900">>,
        destructive |-> <<"text-slate-900", SP, "hover:bg-slate-100", SP,
                          "focus-visible:ring-slate-900">>],
     link |->
       [normal |-> <<"text-slate-950", SP, "underline-offset-4", SP, "hover:underline", SP,
                     "focus-visible:ring-slate-900", SP, "gap-2">>,
        destructive |-> <<"text-red-900", SP, "underline-offset-4", SP, "hover:underline", SP,
                          "focus-visible:ring-red-600", SP, "gap-2">>],
     linkSecondary |->
       [normal |-> <<"text-slate-600", SP, "underline-offset-4", SP, "hover:underline", SP,
                     "focus-visible:ring-slate-900", SP, "gap-2">>,
        destructive |-> <<"text-red-600", SP, "underline-offset-4", SP, "hover:underline", SP,
                          "focus-visible:ring-red-600", SP, "gap-2">>]]

\* the Record<ButtonVariant, Record<'normal' | 'destructive', string>>
variantStyles ==
    [primary |->
       [normal |-> <<"bg-slate-900", SP, "text-slate-50", SP, "hover:bg-slate-800", SP,
                     "focus-visible:ring-slate-900">>,
        destructive |-> <<"bg-red-600", SP, "text-white", SP, "hover:bg-red-700", SP,
                          "focus-visible:ring-red-600">>],
     secondary |->
       [normal |-> <<"bg-slate-100", SP, "text-slate-900", SP, "hover:bg-slate-200", SP,
                     "focus-visible:ring-slate-900">>,
        destructive |-> <<"bg-red-100", SP, "text-red-900", SP, "hover:bg-red-200", SP,
                          "focus-visible:ring-red-600">>],
     outline |->
       [normal |-> <<"border", SP, "border-slate-200", SP, "bg-white", SP, "text-slate-900", SP,
                     "hover:bg-slate-100", SP, "focus-visible:ring-slate-900">>,
        destructive |-> <<"border", SP, "border-red-200", SP, "bg-white", SP, "text-red-900", SP,
                          "hover:bg-red-50", SP, "focus-visible:ring-red-600">>],
     ghost |->
       [normal |-> <<"text-slate-900", SP, "hover:bg-slate-100", SP,
                     "focus-visible:ring-slate-900">>,
        destructive |-> <<"text-red-900", SP, "hover:bg-red-100", SP,
                          "focus-visible:ring-red-600">>],
     link |->
       [normal |-> <<"text-slate-950", SP, "underline-offset-4", SP, "hover:underline", SP,
                     "focus-visible:ring-slate-900", SP, "gap-2">>,
        destructive |-> <<"text-red-900", SP, "underline-offset-4", SP, "hover:underline", SP,
                          "focus-visible:ring-red-600", SP, "gap-2">>],
     linkSecondary |->
       [normal |-> <<"text-slate-600", SP, "underline-offset-4", SP, "hover:underline", SP,
                     "focus-visible:ring-slate-900", SP, "gap-2">>,
        destructive |-> <<"text-red-600", SP, "underline-offset-4", SP, "hover:underline", SP,
                          "focus-visible:ring-red-600", SP, "gap-2">>]]

roundedStyles_link_only(variant) == IF variant = "link" THEN << >> ELSE <<"rounded-md">>

roundedStyles(variant) == IF isLink(variant) THEN << >> ELSE <<"rounded-md">>

buttonStyles_className_first(variant, size, destructive, className) ==
    Join(<<className,
           baseStyles,
           sizeStyles(variant, size)[size],
           variantStyles[variant][IF destructive THEN "destructive" ELSE "normal"],
           roundedStyles(variant)>>)

buttonStyles(variant, size, destructive, className) ==
    Join(<<baseStyles,
           sizeStyles(variant, size)[size],
           variantStyles[variant][IF destructive THEN "destructive" ELSE "normal"],
           roundedStyles(variant),
           className>>)

iconStyles == <<"w-4", SP, "h-4", SP, "shrink-0">>

\* an attribute whose value is undefined is not rendered: the key is left out
ariaAttributes(p, loading) ==
    Spread(IF Has(p, "aria-label") THEN Put(NoProps, "aria-label", p["aria-label"]) ELSE NoProps,
           [x \in {"aria-disabled", "aria-busy"} |->
               IF x = "aria-disabled" THEN isDisabled(p, loading) ELSE loading])

\* what a child position of the <button> renders
Nothing == [kind |-> "nothing", className |-> << >>, child |-> ""]

IconSpan(icon) == [kind |-> "span", className |-> iconStyles, child |-> icon]

LoadingSpinner(size) ==
    [kind |-> "spinner",
     className |-> <<"animate-spin", SP>> \o (IF size = "sm" THEN <<"w-4", SP, "h-4">>
                                                            ELSE <<"w-4", SP, "h-4">>),
     child |-> ""]

LeftSlot_spinner_whenever_loading(p, loading, size) ==
    IF loading
      THEN LoadingSpinner(size)
      ELSE IF Has(p, "leftIcon") THEN IconSpan(p["leftIcon"]) ELSE Nothing

\* {loading && !rightIcon ? <LoadingSpinner/> : leftIcon && <span>}
LeftSlot(p, loading, size) ==
    IF loading /\ ~Has(p, "rightIcon")
      THEN LoadingSpinner(size)
      ELSE IF Has(p, "leftIcon") THEN IconSpan(p["leftIcon"]) ELSE Nothing

\* {children && <span className={link ? '' : 'px-1'}>}
Content(p, variant) ==
    IF Has(p, "children")
      THEN [kind |-> "span",
            className |-> IF isLink(variant) THEN << >> ELSE <<"px-1">>,
            child |-> p["children"]]
      ELSE Nothing

\* {loading && rightIcon ? <LoadingSpinner/> : rightIcon && <span>}
RightSlot(p, loading, size) ==
    IF loading /\ Has(p, "rightIcon")
      THEN LoadingSpinner(size)
      ELSE IF Has(p, "rightIcon") THEN IconSpan(p["rightIcon"]) ELSE Nothing

\* the <button> element one render of Button returns
Button(p) ==
    LET variant     == Get(p, "variant", "primary")
        size        == Get(p, "size", "md")
        destructive == Get(p, "destructive", FALSE)
        loading     == Get(p, "loading", FALSE)
        className   == Get(p, "className", << >>)
        type        == Get(p, "type", "button")
    IN  [attrs |-> Spread(Spread([x \in {"disabled"} |-> isDisabled(p, loading)],
                                 ariaAttributes(p, loading)),
                          RestOf(p)),
         type |-> type,
         className |-> buttonStyles(variant, size, destructive, className),
         left |-> LeftSlot(p, loading, size),
         content |-> Content(p, variant),
         right |-> RightSlot(p, loading, size)]

(* ------------------------- the rendering parent ------------------------ *)

\* ButtonExamples: the useState flag, the pending setTimeout callbacks (their
\* due times, in scheduling order) and the clock, in milliseconds
VARIABLES loading, timers, now

exampleVars == <<loading, timers, now>>

vars == <<props, element, loading, timers, now>>

\* class tokens callers append (ButtonExamples line 169, README line 665)
ClassTokens == {"w-full", "shadow-lg", "rounded-md"}

\* a caller className: at most MaxClassNameLen tokens separated by one space
ClassNames ==
    UNION {{Join(ts) : ts \in [1..n -> {<<t>> : t \in ClassTokens}]} : n \in 0..MaxClassNameLen}

\* the values a caller passes for an attribute
Values(k) ==
    CASE k = "variant"       -> ButtonVariant
      [] k = "size"          -> ButtonSize
      [] k = "destructive"   -> BOOLEAN
      [] k = "loading"       -> BOOLEAN
      [] k = "disabled"      -> BOOLEAN
      [] k = "leftIcon"      -> {"PlusIcon"}
      [] k = "rightIcon"     -> {"ArrowRightIcon"}
      [] k = "children"      -> {"Click to Load"}
      [] k = "className"     -> ClassNames
      [] k = "aria-label"    -> {"Add new item to cart"}
      [] k = "aria-disabled" -> BOOLEAN
      [] k = "aria-busy"     -> BOOLEAN
      [] k = "onClick"       -> {"handleClick"}

\* Each action is the parent rendering the Button again with one attribute
\* changed; Button runs to completion within the render.

SetVariant ==
    \E v \in Values("variant") :
        /\ props' = Put(props, "variant", v)
        /\ element' = Button(props')
        /\ UNCHANGED exampleVars

SetSize ==
    \E v \in Values("size") :
        /\ props' = Put(props, "size", v)
        /\ element' = Button(props')
        /\ UNCHANGED exampleVars

SetDestructive ==
    \E v \in Values("destructive") :
        /\ props' = Put(props, "destructive", v)
        /\ element' = Button(props')
        /\ UNCHANGED exampleVars

SetLoading ==
    \E v \in Values("loading") :
        /\ props' = Put(props, "loading", v)
        /\ element' = Button(props')
        /\ UNCHANGED exampleVars

SetDisabled ==
    \E v \in Values("disabled") :
        /\ props' = Put(props, "disabled", v)
        /\ element' = Button(props')
        /\ UNCHANGED exampleVars

SetLeftIcon ==
    \E v \in Values("leftIcon") :
        /\ props' = Put(props, "leftIcon", v)
        /\ element' = Button(props')
        /\ UNCHANGED exampleVars

SetRightIcon ==
    \E v \in Values("rightIcon") :
        /\ props' = Put(props, "rightIcon", v)
        /\ element' = Button(props')
        /\ UNCHANGED exampleVars

SetChildren ==
    \E v \in Values("children") :
        /\ props' = Put(props, "children", v)
        /\ element' = Button(props')
        /\ UNCHANGED exampleVars

SetClassName ==
    \E v \in Values("className") :
        /\ props' = Put(props, "className", v)
        /\ element' = Button(props')
        /\ UNCHANGED exampleVars

SetAriaLabel ==
    \E v \in Values("aria-label") :
        /\ props' = Put(props, "aria-label", v)
        /\ element' = Button(props')
        /\ UNCHANGED exampleVars

\* an attribute the component does not destructure, passed through `...props`
SetPassthrough ==
    \E k \in {"aria-disabled", "aria-busy", "onClick"} :
        \E v \in Values(k) :
            /\ props' = Put(props, k, v)
            /\ element' = Button(props')
            /\ UNCHANGED exampleVars

\* the parent stops supplying an attribute
OmitProp ==
    \E k \in DOMAIN props :
        /\ props' = Omit(props, k)
        /\ element' = Button(props')
        /\ UNCHANGED exampleVars

\* the Button is mounted with no attribute supplied: <Button />
Init ==
    /\ props = NoProps
    /\ element = Button(props)
    /\ loading = FALSE
    /\ timers = << >>
    /\ now = 0

\* the render contract: state flags, accessibility attributes, passthrough
Next ==
    \/ SetVariant
    \/ SetSize
    \/ SetDestructive
    \/ SetLoading
    \/ SetDisabled
    \/ SetAriaLabel
    \/ SetPassthrough
    \/ OmitProp

Spec == Init /\ [][Next]_vars

\* the children of the element: icon slots, label and spinner
NextSlots ==
    \/ SetVariant
    \/ SetSize
    \/ SetLoading
    \/ SetDisabled
    \/ SetLeftIcon
    \/ SetRightIcon
    \/ SetChildren
    \/ OmitProp

SpecSlots == Init /\ [][NextSlots]_vars

\* the style string
NextStyle ==
    \/ SetVariant
    \/ SetSize
    \/ SetDestructive
    \/ SetLoading
    \/ SetDisabled
    \/ SetClassName
    \/ OmitProp

SpecStyle == Init /\ [][NextStyle]_vars

(* ----------------------- ButtonExamples: load button ------------------- *)

\* setTimeout(() => setLoading(false), 2000)
TimerDelay == 2000

\* the clock advances in steps of TickMs and stops at MaxTime
TickMs == 500

MaxTime == 20000

\* no more callbacks than this are ever queued
MaxTimers == 3

\* <Button variant="primary" loading={loading} onClick={handleClick}>
\*   {loading ? 'Loading...' : 'Click to Load'}
LoadButtonProps(l) ==
    [x \in {"variant", "loading", "onClick", "children"} |->
        CASE x = "variant"  -> "primary"
          [] x = "loading"  -> l
          [] x = "onClick"  -> "handleClick"
          [] x = "children" -> IF l THEN "Loading..." ELSE "Click to Load"]

\* the browser dispatches a click only to a button that is not natively
\* disabled, and React calls the onClick the element carries
ClickAccepted ==
    /\ Has(element.attrs, "onClick")
    /\ element.attrs["onClick"] = "handleClick"
    /\ ~element.attrs["disabled"]

\* handleClick: setLoading(true), setTimeout(...); React renders the example
\* again before the event returns
handleClick ==
    /\ ClickAccepted
    /\ Len(timers) < MaxTimers
    /\ now + TimerDelay + TickMs <= MaxTime
    /\ loading' = TRUE
    /\ timers' = Append(timers, now + TimerDelay)
    /\ props' = LoadButtonProps(loading')
    /\ element' = Button(props')
    /\ now' = now

\* the timer callback () => setLoading(false), run once its delay has passed
TimerFires ==
    /\ timers # << >>
    /\ Head(timers) <= now
    /\ loading' = FALSE
    /\ timers' = Tail(timers)
    /\ props' = LoadButtonProps(loading')
    /\ element' = Button(props')
    /\ now' = now

\* time passes; a callback that is due runs before the clock moves on
Tick ==
    /\ now + TickMs <= MaxTime
    /\ \A i \in 1..Len(timers) : timers[i] > now
    /\ now' = now + TickMs
    /\ UNCHANGED <<props, element, loading, timers>>

\* const [loading, setLoading] = React.useState(false), first render
InitExample ==
    /\ loading = FALSE
    /\ timers = << >>
    /\ now = 0
    /\ props = LoadButtonProps(loading)
    /\ element = Button(props)

NextExample ==
    \/ handleClick
    \/ TimerFires
    \/ Tick

SpecExample == InitExample /\ [][NextExample]_vars

\* time passes and a due callback is run by the event loop
SpecExampleFair == SpecExample /\ WF_vars(Tick) /\ WF_vars(TimerFires)

\* the element on screen is always the render of the current props
TypeOK == element = Button(props)

(* ------------------------------ properties ----------------------------- *)

\* the inputs of the current render after the defaults are applied
CurVariant == Get(props, "variant", "primary")

CurSize == Get(props, "size", "md")

CurDestructive == Get(props, "destructive", FALSE)

CurLoading == Get(props, "loading", FALSE)

CurDisabled == Get(props, "disabled", FALSE)

CurClassName == Get(props, "className", << >>)

\* the style string without the separator and the className the caller appended
Computed == SubSeq(element.className, 1, Len(element.className) - Len(CurClassName) - 1)

\* C1: in every render the native disabled attribute and aria-disabled both
\* equal (disabled OR loading), so the two agree and the control is
\* interactive exactly when both flags are false.
C1_DisabledAgrees ==
    /\ element.attrs["disabled"] = (CurDisabled \/ CurLoading)
    /\ element.attrs["aria-disabled"] = (CurDisabled \/ CurLoading)
    /\ element.attrs["aria-disabled"] = element.attrs["disabled"]
    /\ (~element.attrs["disabled"]) = (~CurDisabled /\ ~CurLoading)

\* C2: in every render aria-busy equals the loading input (false when
\* omitted), whatever the value of disabled.
C2_BusyIsLoading == element.attrs["aria-busy"] = CurLoading

\* C3: for every input, passthrough attributes included, the accessibility
\* attributes of the element are exactly aria-label (the caller's value, absent
\* when not supplied), aria-disabled = (disabled OR loading) and aria-busy =
\* loading; no passthrough attribute changes the derived values or makes
\* aria-disabled disagree with the native disabled attribute.
C3_AriaExact ==
    LET aria == {k \in DOMAIN element.attrs : k \in {"aria-label", "aria-disabled", "aria-busy"}}
    IN  /\ aria = {"aria-disabled", "aria-busy"} \cup (DOMAIN props \cap {"aria-label"})
        /\ Has(props, "aria-label") => element.attrs["aria-label"] = props["aria-label"]
        /\ \A q \in {props, Omit(props, "aria-disabled"), Omit(props, "aria-busy"),
                     Omit(props, "onClick")} :
              /\ Button(q).attrs["aria-disabled"] = element.attrs["aria-disabled"]
              /\ Button(q).attrs["aria-busy"] = element.attrs["aria-busy"]
        /\ element.attrs["aria-disabled"] = element.attrs["disabled"]

\* the number of spinners among the children of the element
Spinners ==
    Cardinality({c \in {"left", "content", "right"} : element[c].kind = "spinner"})

\* C4: icon slots follow the decision table: loading with a right icon puts the
\* spinner in the right slot and leaves the left slot alone; loading without a
\* right icon puts the spinner in the left slot and leaves the right slot
\* empty; not loading shows both icons as supplied; so there is exactly one
\* spinner when loading and none otherwise.
C4_SlotTable ==
    LET leftAsSupplied ==
            IF Has(props, "leftIcon")
              THEN element.left.kind = "span" /\ element.left.child = props["leftIcon"]
              ELSE element.left.kind = "nothing"
        rightAsSupplied ==
            IF Has(props, "rightIcon")
              THEN element.right.kind = "span" /\ element.right.child = props["rightIcon"]
              ELSE element.right.kind = "nothing"
    IN  /\ (CurLoading /\ Has(props, "rightIcon")) =>
              element.right.kind = "spinner" /\ leftAsSupplied
        /\ (CurLoading /\ ~Has(props, "rightIcon")) =>
              element.left.kind = "spinner" /\ element.right.kind = "nothing"
        /\ ~CurLoading => leftAsSupplied /\ rightAsSupplied
        /\ Spinners = IF CurLoading THEN 1 ELSE 0

C4_Witness ==
    /\ CurLoading
    /\ Has(props, "rightIcon") /\ Has(props, "leftIcon")
    /\ element.right.kind = "spinner"
    /\ element.left.child = "PlusIcon"

\* the style string the current props would give with another size
StyleWithSize(sz) == Button(Put(props, "size", sz)).className

\* the size tokens: what stands between the base tokens and the variant tokens
SizeTokens(cls, variant) ==
    SubSeq(cls, Len(baseStyles) + 2, Len(baseStyles) + 1 + (IF isLink(variant) THEN 3 ELSE 9))

\* C5: for the link variants the size tokens are 'h-6 text-sm' for both sizes
\* and the size input has no effect on the string; for every other variant the
\* size tokens of 'sm' and 'md' differ.
C5_LinkSizeFixed ==
    /\ isLink(CurVariant) =>
          /\ SizeTokens(element.className, CurVariant) = <<"h-6", SP, "text-sm">>
          /\ Tokens(Computed) \cap {"h-9", "h-10", "px-3", "py-2", "gap-1"} = {}
          /\ StyleWithSize("sm") = element.className
          /\ StyleWithSize("md") = element.className
    /\ ~isLink(CurVariant) =>
          /\ SizeTokens(StyleWithSize("sm"), CurVariant) # SizeTokens(StyleWithSize("md"), CurVariant)
          /\ StyleWithSize("sm") # StyleWithSize("md")

C5_Witness ==
    /\ CurVariant = "link"
    /\ Has(props, "size") /\ props["size"] = "sm"
    /\ "h-6" \in Tokens(element.className)

\* C6: for primary, secondary, outline and ghost the style string contains
\* 'rounded-md' whatever the size, tone, disabled and loading; for link and
\* linkSecondary the computed tokens never contain it.
C6_Rounded ==
    /\ ~isLink(CurVariant) => "rounded-md" \in Tokens(Computed)
    /\ isLink(CurVariant) => "rounded-md" \notin Tokens(Computed)

C6_Witness ==
    /\ CurVariant = "linkSecondary"
    /\ CurClassName = <<"rounded-md">>
    /\ "rounded-md" \in Tokens(element.className)
    /\ "rounded-md" \notin Tokens(Computed)

\* the positions of the computed part that hold one of the tokens
At(tokens) == {i \in 1..Len(Computed) : Computed[i] \in tokens}

HeightTokens == {"h-6", "h-9", "h-10"}

RingTokens == {"focus-visible:ring-slate-900", "focus-visible:ring-red-600"}

\* C7: the style string is base tokens, size tokens, variant/tone tokens, shape
\* token, caller className in that order; every caller token comes after every
\* computed token and the base tokens are always there.
C7_SegmentOrder ==
    LET s == element.className
        n == Len(s)
        c == Len(CurClassName)
    IN  /\ SubSeq(s, 1, Len(baseStyles)) = baseStyles
        /\ At(HeightTokens) # {} /\ At(RingTokens) # {}
        /\ \A i \in At(HeightTokens) : i > Len(baseStyles)
        /\ \A i \in At(HeightTokens), j \in At(RingTokens) : i < j
        /\ \A j \in At(RingTokens), k \in At({"rounded-md"}) : j < k
        /\ n >= c + 1 /\ s[n - c] = SP
        /\ SubSeq(s, n - c + 1, n) = CurClassName
        /\ Len(Computed) >= Len(baseStyles)

C7_Witness ==
    /\ CurClassName = <<"w-full">>
    /\ CurVariant = "primary"
    /\ element.className[Len(element.className)] = "w-full"
    /\ "rounded-md" \in Tokens(Computed)

Tone(destructive) == IF destructive THEN "destructive" ELSE "normal"

\* the variant/tone tokens: what follows the size tokens, as long as the entry
VariantTokens(cls, variant, len) ==
    LET start == Len(baseStyles) + 3 + (IF isLink(variant) THEN 3 ELSE 9)
    IN  SubSeq(cls, start, start + len - 1)

\* C10: the variant/tone tokens are the table entry of (variant, tone) whatever
\* the size, disabled and loading; the twelve entries are pairwise distinct and
\* so are the style strings of two different (variant, tone) pairs; link, sm,
\* destructive gives 'text-red-900 ...', 'h-6 text-sm' and no 'rounded-md'.
C10_VariantTable ==
    LET entry == variantStyles[CurVariant][Tone(CurDestructive)]
    IN  /\ VariantTokens(element.className, CurVariant, Len(entry)) = entry
        /\ \A sz \in ButtonSize, d \in BOOLEAN, l \in BOOLEAN :
              LET other == Button(Put(Put(Put(props, "size", sz), "disabled", d), "loading", l))
              IN  VariantTokens(other.className, CurVariant, Len(entry)) = entry
        /\ \A v \in ButtonVariant, t \in BOOLEAN :
              <<v, t>> # <<CurVariant, CurDestructive>> =>
                  /\ variantStyles[v][Tone(t)] # entry
                  /\ \A sz \in ButtonSize :
                        buttonStyles(v, sz, t, CurClassName) # element.className
        /\ (CurVariant = "link" /\ CurSize = "sm" /\ CurDestructive) =>
              /\ entry = <<"text-red-900", SP, "underline-offset-4", SP, "hover:underline", SP,
                           "focus-visible:ring-red-600", SP, "gap-2">>
              /\ SizeTokens(element.className, CurVariant) = <<"h-6", SP, "text-sm">>
              /\ "rounded-md" \notin Tokens(Computed)

C10_Witness ==
    /\ CurVariant = "link" /\ CurSize = "sm" /\ CurDestructive
    /\ Has(props, "disabled") /\ Has(props, "loading")
    /\ "text-red-900" \in Tokens(element.className)

\* C11: on the load button of ButtonExamples an accepted click sets loading
\* and schedules one timer that clears it; whenever loading is set the button
\* is rendered disabled and busy, so no click is accepted and at most one timer
\* is pending; loading changes only in handleClick and in the timer callback;
\* and, time passing and due timers running, loading is always followed by a
\* render with loading cleared and the button interactive again.
C11_LoadCycle ==
    /\ [](loading => /\ element.attrs["disabled"]
                     /\ element.attrs["aria-disabled"]
                     /\ element.attrs["aria-busy"]
                     /\ ~ClickAccepted)
    /\ [](Len(timers) <= 1 /\ (loading <=> timers # << >>))
    /\ [][(loading' # loading \/ timers' # timers) =>
             \/ /\ ClickAccepted /\ ~loading /\ loading'
                /\ timers' = Append(timers, now + TimerDelay)
             \/ /\ timers # << >> /\ Head(timers) <= now /\ loading /\ ~loading'
                /\ timers' = Tail(timers)]_vars
    /\ (loading ~> (~loading /\ ClickAccepted))

\* a second load cycle is under way: the button is disabled with its one timer
C11_Witness ==
    /\ loading
    /\ Len(timers) = 1 /\ timers[1] > TimerDelay
    /\ element.attrs["disabled"] /\ element.attrs["aria-busy"]
    /\ element.content.child = "Loading..."
====
